---- MODULE Spec2Model ----
(***************************************************************************)
(* A model of the recipe store (src-tauri/src/database.rs) and of the     *)
(* extraction orchestrator and the read commands (src-tauri/src/lib.rs),  *)
(*                                                                         *)
(* The store is one SQLite connection behind a Mutex.  Every statement    *)
(* runs in autocommit mode: it is atomic by itself, and nothing groups    *)
(* the statements of one Database method into a transaction.              *)
(*                                                                         *)
(* with the recipe parser (src-tauri/src/recipe_parser.rs) on JSON values. *)
(*                                                                         *)
(* A file path is the sequence of its components, so that file_name() and *)
(* split('/') are computed; an item identifier is the sequence of its     *)
(* characters, so that ordering and LIKE are computed.                    *)
(***************************************************************************)
EXTENDS Integers, Sequences, FiniteSets, TLC

\* ---------------------------------------------------------------- bounds

\* Number of Database calls made in one behaviour of Spec.
MaxCalls == 4
\* Length of the archive list handed to one extraction run.
MaxPaths == 2
\* Length of the archive list of a run that a read command runs beside.
MaxReadPaths == 1
\* Largest page size tried by the pagination properties.
MaxPage == 3
\* Number of members, beside "type", of a document handed to the parser.
MaxFields == 2

\* ------------------------------------------------------------ JSON values

\* A text (a JSON string, an identifier) is the sequence of its pieces.  Item
\* identifiers are cut into single characters; recipe type names are cut into
\* the namespace prefix and words, with "special" always a piece of its own.
\* An Option is the empty sequence (None) or a sequence of one value (Some).
None == << >>
Some(x) == <<x>>

\* serde_json::Value.  An integer v is kept as (hi, lo) with
\* v = hi * 2^32 + lo and lo in the range of i32, so that `as i32` is lo.
JString(text) == [kind |-> "string", str |-> text]
JInt(hi, lo) == [kind |-> "int", hi |-> hi, lo |-> lo]
JNull == [kind |-> "null"]
JArray(items) == [kind |-> "array", items |-> items]
\* An object is written as the sequence of its members, in document order.
JObject(members) == [kind |-> "object", members |-> members]
Member(name, value) == [name |-> name, value |-> value]
\* A text serde_json::from_str rejects.
Malformed == [kind |-> "malformed"]

\* Option::or and Option::and_then(as_...).
Or(a, b) == IF a /= None THEN a ELSE b
as_str(opt) ==
    IF opt /= None /\ opt[1].kind = "string" THEN Some(opt[1].str) ELSE None
as_array(opt) ==
    IF opt /= None /\ opt[1].kind = "array" THEN Some(opt[1].items) ELSE None
as_i64(opt) ==
    IF opt /= None /\ opt[1].kind = "int" THEN Some(opt[1]) ELSE None

\* Map::get on the members of an object: a later member replaces an earlier
\* one of the same name.
MapGet(members, name) ==
    LET at == {k \in 1..Len(members) : members[k].name = name}
    IN  IF at = {} THEN None
        ELSE Some(members[CHOOSE k \in at : \A j \in at : j <= k].value)

\* Value::get(name): None unless the value is an object with that member.
get(value, name) ==
    IF value.kind = "object" THEN MapGet(value.members, name) ELSE None

\* The values of a map, one per name: `for (_symbol, ingredient) in key`.
MapValues(members) ==
    LET last == {k \in 1..Len(members) :
                    \A j \in (k + 1)..Len(members) : members[j].name /= members[k].name}
        F[k \in 0..Len(members)] ==
            IF k = 0 THEN << >>
            ELSE IF k \in last THEN Append(F[k - 1], members[k].value) ELSE F[k - 1]
    IN  F[Len(members)]

\* value.get("key").and_then(|k| k.as_object()), as the values of the map.
KeyValues(value) ==
    LET key == get(value, "key")
    IN  IF key /= None /\ key[1].kind = "object" THEN MapValues(key[1].members)
        ELSE << >>

\* ------------------------------------------------------------ text order

\* The pieces of the texts that get sorted, in byte order.
PieceOrder == <<"#", "%", "1", "2", "A", "_", "a", "b", "i">>
PieceRank(c) == CHOOSE k \in 1..Len(PieceOrder) : PieceOrder[k] = c

\* str's Ord (and SQLite's BINARY collation): byte-wise, a prefix first.
RECURSIVE StrLess(_, _)
StrLess(a, b) ==
    IF b = << >> THEN FALSE
    ELSE IF a = << >> THEN TRUE
    ELSE IF a[1] /= b[1] THEN PieceRank(a[1]) < PieceRank(b[1])
    ELSE StrLess(Tail(a), Tail(b))

\* Sort for a parse_recipe without `ingredients.sort()`.
SortKeepsOrder(v) == v

\* Vec::sort on texts: each element is inserted into the sorted rest.
RECURSIVE Insert(_, _)
Insert(x, sorted) ==
    IF sorted = << >> THEN <<x>>
    ELSE IF StrLess(sorted[1], x) THEN <<sorted[1]>> \o Insert(x, Tail(sorted))
    ELSE <<x>> \o sorted
RECURSIVE Sort(_)
Sort(v) == IF v = << >> THEN << >> ELSE Insert(v[1], Sort(Tail(v)))

\* Vec::dedup: consecutive equal elements are reduced to the first.
RECURSIVE Dedup(_)
Dedup(v) ==
    IF Len(v) <= 1 THEN v
    ELSE IF v[1] = v[2] THEN Dedup(Tail(v))
    ELSE <<v[1]>> \o Dedup(Tail(v))

\* str::contains on texts: needle is a run of consecutive pieces of text.
Contains(text, needle) ==
    \E k \in 0..(Len(text) - Len(needle)) :
        SubSeq(text, k + 1, k + Len(needle)) = needle

\* --------------------------------------------------------- recipe_parser.rs

\* Forms for a dispatch that lists only the bare names.
FormsBareOnly(bare) == {bare}

\* The type names of the dispatch, bare and with the "minecraft:" namespace.
Forms(bare) == {bare, <<"minecraft:">> \o bare}
ShapedTypes == Forms(<<"crafting_shaped">>)
ShapelessTypes == Forms(<<"crafting_shapeless">>)
CookingTypes == Forms(<<"smelting">>) \cup Forms(<<"blasting">>)
                \cup Forms(<<"smoking">>) \cup Forms(<<"campfire_cooking">>)
StonecuttingTypes == Forms(<<"stonecutting">>)
SmithingTypes == Forms(<<"smithing_transform">>) \cup Forms(<<"smithing_trim">>)
LegacySmithingTypes == Forms(<<"smithing">>)

\* extract_item_and_count: `c as i32` keeps the low 32 bits of the count.
extract_item_and_count(value) ==
    IF value.kind = "string" THEN [item |-> Some(value.str), count |-> Some(1)]
    ELSE IF value.kind = "object"
    THEN LET c == as_i64(get(value, "count"))
         IN  [item  |-> as_str(Or(get(value, "item"), get(value, "id"))),
              count |-> IF c /= None THEN Some(c[1].lo) ELSE Some(1)]
    ELSE [item |-> None, count |-> None]

\* extract_ingredients_from_value: the texts it pushes, in order.
RECURSIVE extract_ingredients_from_value(_)
\* The loop over an array: what its elements from the k-th on push.
RECURSIVE extract_from_items(_, _)
extract_from_items(items, k) ==
    IF k > Len(items) THEN << >>
    ELSE extract_ingredients_from_value(items[k]) \o extract_from_items(items, k + 1)

\* extract_ingredients_from_value pushing a tag without its "#" prefix.
ExtractTagsWithoutMarker(value) ==
    IF value.kind = "string" THEN <<value.str>>
    ELSE IF value.kind = "object"
    THEN LET item == as_str(get(value, "item"))
             tag  == as_str(get(value, "tag"))
         IN  IF item /= None THEN <<item[1]>>
             ELSE IF tag /= None THEN <<tag[1]>>
             ELSE << >>
    ELSE IF value.kind = "array" THEN extract_from_items(value.items, 1)
    ELSE << >>

extract_ingredients_from_value(value) ==
    IF value.kind = "string" THEN <<value.str>>
    ELSE IF value.kind = "object"
    THEN LET item == as_str(get(value, "item"))
             tag  == as_str(get(value, "tag"))
         IN  IF item /= None THEN <<item[1]>>
             ELSE IF tag /= None THEN <<(<<"#">> \o tag[1])>>
             ELSE << >>
    ELSE IF value.kind = "array" THEN extract_from_items(value.items, 1)
    ELSE << >>

\* `if let Some(x) = value.get(name) { extract_ingredients_from_value(x, ..) }`
FromField(value, name) ==
    LET x == get(value, name)
    IN  IF x = None THEN << >> ELSE extract_ingredients_from_value(x[1])

\* FromEither for a fallback that accepts only arrays.
FromEitherArraysOnly(value, first, second) ==
    LET x == Or(get(value, first), get(value, second))
    IN  IF x = None THEN << >>
        ELSE IF x[1].kind = "array" THEN extract_from_items(x[1].items, 1)
        ELSE << >>

\* The fallback's `if let Some(arr) = v.as_array() { for ing in arr {..} }
\* else { extract_ingredients_from_value(v, ..) }` on first.or(second).
FromEither(value, first, second) ==
    LET x == Or(get(value, first), get(value, second))
    IN  IF x = None THEN << >>
        ELSE IF x[1].kind = "array" THEN extract_from_items(x[1].items, 1)
        ELSE extract_ingredients_from_value(x[1])

\* The match on recipe_type: the texts pushed to ingredients, in order.
MatchIngredients(value, recipe_type) ==
    IF recipe_type \in ShapedTypes
    THEN extract_from_items(KeyValues(value), 1)
    ELSE IF recipe_type \in ShapelessTypes
    THEN LET arr == as_array(get(value, "ingredients"))
         IN  IF arr = None THEN << >> ELSE extract_from_items(arr[1], 1)
    ELSE IF recipe_type \in CookingTypes \cup StonecuttingTypes
    THEN FromField(value, "ingredient")
    ELSE IF recipe_type \in SmithingTypes
    THEN FromField(value, "template") \o FromField(value, "base")
         \o FromField(value, "addition")
    ELSE IF recipe_type \in LegacySmithingTypes
    THEN FromField(value, "base") \o FromField(value, "addition")
    ELSE IF Contains(recipe_type, <<"special">>)
    THEN << >>
    ELSE FromEither(value, "ingredients", "ingredient")
         \o extract_from_items(KeyValues(value), 1)
         \o FromEither(value, "input", "inputs")

\* parse_recipe after serde_json::from_str has accepted the text.
ParseValue(value) ==
    LET type        == as_str(get(value, "type"))
        recipe_type == IF type = None THEN <<"unknown">> ELSE type[1]
        result      == get(value, "result")
        extracted   == IF result = None THEN [item |-> None, count |-> None]
                       ELSE extract_item_and_count(result[1])
        result_str  == as_str(result)
        result_item == IF recipe_type \in StonecuttingTypes /\ extracted.item = None
                          /\ result_str /= None
                       THEN result_str ELSE extracted.item
    IN  [ok |-> TRUE, error |-> "",
         recipe_type  |-> recipe_type,
         result_item  |-> result_item,
         result_count |-> extracted.count,
         ingredients  |-> Dedup(Sort(MatchIngredients(value, recipe_type)))]

\* serde_json::from_str.  The text of a document is modelled by the value it
\* spells, and a text that is not JSON by Malformed.
from_str(json_str) ==
    IF json_str.kind = "malformed" THEN [ok |-> FALSE, value |-> JNull]
    ELSE [ok |-> TRUE, value |-> json_str]

\* recipe_parser::parse_recipe
parse_recipe(json_str) ==
    LET value == from_str(json_str)
    IN  IF ~value.ok
        THEN [ok |-> FALSE, error |-> "Invalid JSON", recipe_type |-> << >>,
              result_item |-> None, result_count |-> None, ingredients |-> << >>]
        ELSE ParseValue(value.value)

\* -------------------------------------------------------------- universes

\* Archive paths handed to an extraction run.
JarPaths == {<<"m1", "a.jar">>, <<"m2", "b.jar">>}

\* Mod names and paths a direct caller of insert_mod may pass.
ModNames == {"a.jar", "b.jar"}
StorePaths == {<<"m1", "a.jar">>, <<"m2", "a.jar">>}

\* Entry names inside an archive, as the components between '/'.
RecipeA  == <<"data", "m", "recipe", "a.json">>
RecipeB  == <<"data", "m", "recipes", "b.json">>
EntryShort    == <<"data", "m", "recipe">>
EntryAssets   == <<"assets", "m", "recipe", "a.json">>
EntryTags     == <<"data", "m", "tags", "a.json">>
EntryNotJson  == <<"data", "m", "recipe", "a.txt">>

\* Recipe files.  Doc0 has no result and no ingredients, Doc1 the result
\* "ab" and the ingredient "i1", Doc2 the result "A" and the ingredient "i2",
\* Doc3 the result "a_" and the ingredients "i1" and "i2".
I1 == <<"i", "1">>
I2 == <<"i", "2">>
Doc0 ==
    JObject(<<Member("type", JString(<<"minecraft:", "crafting_", "special", "_armordye">>))>>)
Doc1 ==
    JObject(<<Member("type", JString(<<"minecraft:", "smelting">>)),
              Member("ingredient", JString(I1)),
              Member("result", JString(<<"a", "b">>))>>)
Doc2 ==
    JObject(<<Member("type", JString(<<"stonecutting">>)),
              Member("ingredient", JObject(<<Member("item", JString(I2))>>)),
              Member("result", JObject(<<Member("id", JString(<<"A">>)),
                                         Member("count", JInt(0, 2))>>))>>)
Doc3 ==
    JObject(<<Member("type", JString(<<"minecraft:", "crafting_shapeless">>)),
              Member("ingredients",
                     JArray(<<JString(I2), JObject(<<Member("item", JString(I1))>>),
                              JString(I2)>>)),
              Member("result", JObject(<<Member("item", JString(<<"a", "_">>)),
                                         Member("count", JInt(0, 2))>>))>>)
\* What by_name / read_to_string give for an entry that cannot be read.
Unreadable == [kind |-> "not utf-8"]
\* contents before any entry has been read.
NoText == [kind |-> "none"]

\* The arguments of insert_recipe that come from a recipe file: a caller
\* hands it the text of the file (raw_json) and what parse_recipe returned
\* for it.
RecipeInputs ==
    {[raw_json     |-> d,
      recipe_type  |-> parse_recipe(d).recipe_type,
      result_item  |-> parse_recipe(d).result_item,
      result_count |-> parse_recipe(d).result_count,
      ingredients  |-> parse_recipe(d).ingredients] : d \in {Doc0, Doc1, Doc2, Doc3}}

\* Mod names in byte order (SQLite's BINARY collation).
LexOrder == <<"a.jar", "b.jar">>
Rank(s) == CHOOSE k \in 1..Len(LexOrder) : LexOrder[k] = s

\* Entry names in the byte order of their '/'-joined text:
\* "assets/..." < "data/m/recipe" < "data/m/recipe/a.json" < "data/m/recipe/a.txt"
\* < "data/m/recipes/b.json" < "data/m/tags/a.json"   ('/' sorts before 's').
EntryOrder == <<EntryAssets, EntryShort, RecipeA, EntryNotJson, RecipeB, EntryTags>>
EntryRank(e) == CHOOSE k \in 1..Len(EntryOrder) : EntryOrder[k] = e

Max(S) == CHOOSE x \in S : \A y \in S : y <= x
Range(s) == {s[k] : k \in 1..Len(s)}

\* ------------------------------------------------------------------ state

VARIABLES
    foreign_keys,        \* whether the SQLite build enforces REFERENCES clauses
    mods,                \* table mods
    recipes,             \* table recipes
    recipe_ingredients,  \* table recipe_ingredients
    ncalls,              \* Spec: number of Database calls made so far
    mod_ids,             \* Spec: the ids insert_mod has returned so far
    last,                \* Spec: the latest Database call and what it returned
    holders,             \* SpecRun: the threads holding the Mutex around conn
    run,                 \* SpecRun: the locals of extract_all_recipes
    reader,              \* SpecRun: a thread serving a read command
    parser               \* SpecParse: a call of parse_recipe

storeVars == <<mods, recipes, recipe_ingredients>>
apiVars == <<ncalls, mod_ids, last, parser>>
runVars == <<holders, run, reader>>
vars == <<foreign_keys, mods, recipes, recipe_ingredients, ncalls, mod_ids, last,
          holders, run, reader, parser>>

\* A database is the three tables; the statement operators below map a
\* database to the database after the statement.
DB == [mods |-> mods, recipes |-> recipes, ings |-> recipe_ingredients]
EmptyDB == [mods |-> {}, recipes |-> {}, ings |-> {}]

Ids(rows) == {r.id : r \in rows}

\* INTEGER PRIMARY KEY without AUTOINCREMENT: the new rowid is one more than
\* the largest rowid in the table when the statement starts (1 when empty).
NewRowid(rows) == IF rows = {} THEN 1 ELSE Max(Ids(rows)) + 1

\* ------------------------------------------------------------- statements

\* ClearStatement with the first statement of the batch left out.
ClearStatementKeepsIngredients(db, fk, k) ==
    LET deadRec == IF fk THEN {r \in db.recipes : r.mod_id \in Ids(db.mods)} ELSE {}
        deadIng == IF fk THEN {x \in db.ings : x.recipe_id \in Ids(db.recipes)} ELSE {}
        orphIng == IF fk THEN {x \in db.ings : x.recipe_id \in Ids(deadRec)} ELSE {}
    IN  CASE k = 1 -> db
          [] k = 2 -> [db EXCEPT !.recipes = {}, !.ings = db.ings \ deadIng]
          [] k = 3 -> [mods |-> {}, recipes |-> db.recipes \ deadRec,
                       ings |-> db.ings \ orphIng]

\* The k-th statement of "DELETE FROM recipe_ingredients; DELETE FROM recipes;
\* DELETE FROM mods;".  With foreign keys enforced a delete cascades to the
\* rows that name the deleted ones.
ClearStatement(db, fk, k) ==
    LET deadRec == IF fk THEN {r \in db.recipes : r.mod_id \in Ids(db.mods)} ELSE {}
        deadIng == IF fk THEN {x \in db.ings : x.recipe_id \in Ids(db.recipes)} ELSE {}
        orphIng == IF fk THEN {x \in db.ings : x.recipe_id \in Ids(deadRec)} ELSE {}
    IN  CASE k = 1 -> [db EXCEPT !.ings = {}]
          [] k = 2 -> [db EXCEPT !.recipes = {}, !.ings = db.ings \ deadIng]
          [] k = 3 -> [mods |-> {}, recipes |-> db.recipes \ deadRec,
                       ings |-> db.ings \ orphIng]

\* execute_batch runs the statements one at a time: the first n have run.
RECURSIVE ClearStatements(_, _, _)
ClearStatements(db, fk, n) ==
    IF n = 0 THEN db
    ELSE ClearStatement(ClearStatements(db, fk, n - 1), fk, n)

\* StmtInsertMod as a plain INSERT: the row holding the same path stays.
StmtInsertModKeepsOld(db, fk, name, path, by) ==
    LET id == NewRowid(db.mods)
    IN  [ok |-> TRUE, id |-> id,
         db |-> [db EXCEPT !.mods = db.mods \cup
                     {[id |-> id, name |-> name, path |-> path, by |-> by]}]]

\* INSERT OR REPLACE INTO mods (name, path, scanned_at): the row holding the
\* same path is deleted; with foreign keys enforced that delete cascades to
\* its recipes and to their ingredients.  scanned_at is written and never
\* read by any query; `by` stands for it and records the writer.
StmtInsertMod(db, fk, name, path, by) ==
    LET old     == {m \in db.mods : m.path = path}
        id      == NewRowid(db.mods)
        deadRec == IF fk THEN {r \in db.recipes : r.mod_id \in Ids(old)} ELSE {}
        deadIng == IF fk THEN {x \in db.ings : x.recipe_id \in Ids(deadRec)} ELSE {}
    IN  [ok |-> TRUE, id |-> id,
         db |-> [mods    |-> (db.mods \ old) \cup
                             {[id |-> id, name |-> name, path |-> path, by |-> by]},
                 recipes |-> db.recipes \ deadRec,
                 ings    |-> db.ings \ deadIng]]

\* INSERT OR REPLACE INTO recipes (mod_id, path, ..., raw_json): the row with
\* the same (mod_id, path) is deleted and a row with a new rowid is inserted.
\* With foreign keys enforced the delete cascades to the old row's
\* ingredients, and a mod_id that names no mods row fails the statement.
StmtInsertRecipeRow(db, fk, mod_id, path, recipe_type, result_item, result_count, raw_json, by) ==
    LET old     == {r \in db.recipes : r.mod_id = mod_id /\ r.path = path}
        id      == NewRowid(db.recipes)
        deadIng == IF fk THEN {x \in db.ings : x.recipe_id \in Ids(old)} ELSE {}
    IN  IF fk /\ mod_id \notin Ids(db.mods)
        THEN [ok |-> FALSE, id |-> 0, db |-> db]
        ELSE [ok |-> TRUE, id |-> id,
              db |-> [mods    |-> db.mods,
                      recipes |-> (db.recipes \ old) \cup
                                  {[id |-> id, mod_id |-> mod_id, path |-> path,
                                    recipe_type |-> recipe_type,
                                    result_item |-> result_item,
                                    result_count |-> result_count,
                                    raw_json |-> raw_json, by |-> by]},
                      ings    |-> db.ings \ deadIng]]

\* DELETE FROM recipe_ingredients WHERE recipe_id = ?1
StmtDeleteIngredients(db, recipe_id) ==
    [db EXCEPT !.ings = {x \in db.ings : x.recipe_id /= recipe_id}]

\* INSERT INTO recipe_ingredients (recipe_id, item) VALUES (?1, ?2)
StmtInsertIngredient(db, recipe_id, item, by) ==
    [db EXCEPT !.ings = db.ings \cup
        {[id |-> NewRowid(db.ings), recipe_id |-> recipe_id, item |-> item, by |-> by]}]

\* The loop `for item in ingredients`: the first n items have been inserted.
RECURSIVE InsertIngredients(_, _, _, _, _)
InsertIngredients(db, recipe_id, ingredients, n, by) ==
    IF n = 0 THEN db
    ELSE StmtInsertIngredient(
             InsertIngredients(db, recipe_id, ingredients, n - 1, by),
             recipe_id, ingredients[n], by)

\* ------------------------------------------------------- Database methods

\* Database::clear_all.  failAt = 0: every statement succeeds; failAt = k:
\* statement k fails (disk full, I/O error, database busy) and `?` returns
\* the error; the statements before it stay committed.
clear_all(db, fk, failAt) ==
    [ok |-> failAt = 0,
     db |-> ClearStatements(db, fk, IF failAt = 0 THEN 3 ELSE failAt - 1)]

\* Database::insert_mod: one statement, so a failure leaves the store as it was.
insert_mod(db, fk, name, path, failAt, by) ==
    IF failAt /= 0
    THEN [ok |-> FALSE, id |-> 0, db |-> db]
    ELSE StmtInsertMod(db, fk, name, path, by)

\* Database::insert_recipe.  Statement 1 is the INSERT OR REPLACE, statement
\* 2 the DELETE of the ingredients of last_insert_rowid(), statement 2 + k
\* the INSERT of the k-th ingredient.  failAt as for clear_all.
insert_recipe(db, fk, mod_id, path, recipe_type, result_item, result_count, raw_json, ingredients, failAt, by) ==
    LET row == StmtInsertRecipeRow(db, fk, mod_id, path, recipe_type, result_item,
                                   result_count, raw_json, by)
        del == StmtDeleteIngredients(row.db, row.id)
        n   == IF failAt = 0 THEN Len(ingredients) ELSE failAt - 3
    IN  IF failAt = 1 \/ ~row.ok THEN [ok |-> FALSE, id |-> 0, db |-> db]
        ELSE IF failAt = 2 THEN [ok |-> FALSE, id |-> 0, db |-> row.db]
        ELSE [ok |-> failAt = 0, id |-> IF failAt = 0 THEN row.id ELSE 0,
              db |-> InsertIngredients(del, row.id, ingredients, n, by)]

\* ------------------------------------------------------------- queries

ModOf(db, r) == CHOOSE m \in db.mods : m.id = r.mod_id

\* FROM recipes r JOIN mods m ON r.mod_id = m.id
Joined(db) == {r \in db.recipes : r.mod_id \in Ids(db.mods)}

\* ORDER BY m.name, r.path.  Rows with the same (name, path) come out in the
\* order of the scan that feeds the sorter, which is the unique index on
\* (mod_id, path): the order is the same for every LIMIT and OFFSET.
ListBefore(db, a, b) ==
    LET na == Rank(ModOf(db, a).name)
        nb == Rank(ModOf(db, b).name)
    IN  \/ na < nb
        \/ na = nb /\ EntryRank(a.path) < EntryRank(b.path)
        \/ na = nb /\ a.path = b.path /\ a.mod_id < b.mod_id

\* The rows of S as the sequence sorted by Before.
RECURSIVE SortRows(_, _)
SortRows(db, S) ==
    IF S = {} THEN << >>
    ELSE LET first == CHOOSE a \in S : \A b \in S \ {a} : ListBefore(db, a, b)
         IN  <<first>> \o SortRows(db, S \ {first})

\* SELECT DISTINCT item FROM recipe_ingredients WHERE recipe_id = ?1 ORDER BY item
RECURSIVE SortItems(_)
SortItems(S) ==
    IF S = {} THEN << >>
    ELSE LET first == CHOOSE a \in S : \A b \in S \ {a} : StrLess(a, b)
         IN  <<first>> \o SortItems(S \ {first})

get_ingredients_for_recipe(db, recipe_id) ==
    SortItems({x.item : x \in {y \in db.ings : y.recipe_id = recipe_id}})

\* LIMIT ?1 OFFSET ?2 on a sorted result: a negative LIMIT is no limit and a
\* negative OFFSET is 0.
Window(s, offset, limit) ==
    LET from == IF offset < 0 THEN 0 ELSE offset
        upto == IF limit < 0 \/ from + limit > Len(s) THEN Len(s) ELSE from + limit
    IN  IF from >= Len(s) THEN << >> ELSE SubSeq(s, from + 1, upto)

\* Database::collect_recipes: one Recipe per row, with its ingredient list.
collect_recipes(db, rows) ==
    [k \in 1..Len(rows) |->
        [id |-> rows[k].id, mod_name |-> ModOf(db, rows[k]).name,
         path |-> rows[k].path, recipe_type |-> rows[k].recipe_type,
         result_item |-> rows[k].result_item,
         result_count |-> rows[k].result_count,
         ingredients |-> get_ingredients_for_recipe(db, rows[k].id),
         raw_json |-> rows[k].raw_json]]

\* Database::list_recipes
list_recipes(db, offset, limit) ==
    collect_recipes(db, Window(SortRows(db, Joined(db)), offset, limit))

\* Database::get_recipe_count: SELECT COUNT(*) FROM recipes
get_recipe_count(db) == Cardinality(db.recipes)

\* format!("%{}%", item): the LIKE pattern of a search.
SearchTerm(item) == <<"%">> \o item \o <<"%">>

\* LIKE compares ASCII letters without regard to case.
FoldCase(c) == IF c = "A" THEN "a" ELSE IF c = "B" THEN "b" ELSE IF c = "I" THEN "i" ELSE c

\* text LIKE pattern: "%" in the pattern stands for any characters, "_" for
\* any one character, and no character of the pattern is escaped.
RECURSIVE Like(_, _)
Like(pattern, text) ==
    IF pattern = << >> THEN text = << >>
    ELSE IF pattern[1] = "%"
    THEN \E k \in 0..Len(text) : Like(Tail(pattern), SubSeq(text, k + 1, Len(text)))
    ELSE IF text = << >> THEN FALSE
    ELSE IF pattern[1] = "_" THEN Like(Tail(pattern), Tail(text))
    ELSE FoldCase(pattern[1]) = FoldCase(text[1]) /\ Like(Tail(pattern), Tail(text))

\* ORDER BY r.result_item, m.name: NULL first, then byte order.  Rows with
\* the same (result_item, name) come out in rowid order.
SearchBefore(db, a, b) ==
    LET na == Rank(ModOf(db, a).name)
        nb == Rank(ModOf(db, b).name)
    IN  IF a.result_item /= b.result_item
        THEN \/ a.result_item = None
             \/ b.result_item /= None /\ StrLess(a.result_item[1], b.result_item[1])
        ELSE na < nb \/ (na = nb /\ a.id < b.id)

RECURSIVE SortSearch(_, _)
SortSearch(db, S) ==
    IF S = {} THEN << >>
    ELSE LET first == CHOOSE a \in S : \A b \in S \ {a} : SearchBefore(db, a, b)
         IN  <<first>> \o SortSearch(db, S \ {first})

\* Database::search_by_output: WHERE r.result_item LIKE ?1 (a NULL
\* result_item matches no pattern).
search_by_output(db, item) ==
    collect_recipes(db, SortSearch(db,
        {r \in Joined(db) :
            r.result_item /= None /\ Like(SearchTerm(item), r.result_item[1])}))

\* Database::search_by_ingredient: SELECT DISTINCT ... JOIN recipe_ingredients
\* ri ON r.id = ri.recipe_id WHERE ri.item LIKE ?1
search_by_ingredient(db, item) ==
    collect_recipes(db, SortSearch(db,
        {r \in Joined(db) :
            \E x \in db.ings : x.recipe_id = r.id /\ Like(SearchTerm(item), x.item)}))

\* ------------------------------------------------- Spec: the Database API

NoCall == [op |-> "none", ok |-> TRUE, id |-> 0, mod_id |-> 0,
           path |-> << >>, ingredients |-> << >>]

\* extract_all_recipes before it is invoked.  calls lists the Database
\* methods the run has called, progress the events it has emitted, emit what
\* the latest app.emit returned (the code drops it), and found tells whether
\* the store held rows when the run started.
RunIdle ==
    [pc |-> "idle", paths |-> << >>, index |-> 0, mod_name |-> "", mod_id |-> 0,
     result |-> [ok |-> TRUE, error |-> "", id |-> 0],
     archive |-> [names |-> << >>, files |-> << >>],
     entry_names |-> << >>, entry |-> 0, contents |-> NoText,
     recipe_id |-> 0, inserted |-> 0, statement |-> 0,
     mods_processed |-> 0, recipes_extracted |-> 0, errors |-> << >>,
     progress |-> << >>, emit |-> "none", calls |-> << >>, found |-> FALSE]

ReaderIdle == [pc |-> "idle", arrived |-> "none", seen |-> "none", torn |-> FALSE]

\* No call of parse_recipe is under way.
ParserIdle == [pc |-> "idle", json_str |-> NoText, parsed |-> parse_recipe(Malformed)]

Init ==
    /\ foreign_keys \in BOOLEAN
    /\ mods = {}
    /\ recipes = {}
    /\ recipe_ingredients = {}
    /\ ncalls = 0
    /\ mod_ids = {}
    /\ last = NoCall
    /\ holders = {}
    /\ run = RunIdle
    /\ reader = ReaderIdle
    /\ parser = ParserIdle

SetStore(db) ==
    /\ mods' = db.mods
    /\ recipes' = db.recipes
    /\ recipe_ingredients' = db.ings

\* A caller invokes clear_all.
ClearAll ==
    /\ ncalls < MaxCalls
    /\ \E failAt \in 0..3 :
        LET res == clear_all(DB, foreign_keys, failAt)
        IN  /\ SetStore(res.db)
            /\ last' = [NoCall EXCEPT !.op = "clear_all", !.ok = res.ok]
    /\ ncalls' = ncalls + 1
    /\ UNCHANGED <<foreign_keys, mod_ids, runVars, parser>>

\* A caller invokes insert_mod(name, path).
InsertMod ==
    /\ ncalls < MaxCalls
    /\ \E name \in ModNames, path \in StorePaths, failAt \in 0..1 :
        LET res == insert_mod(DB, foreign_keys, name, path, failAt, "caller")
        IN  /\ SetStore(res.db)
            /\ mod_ids' = IF res.ok THEN mod_ids \cup {res.id} ELSE mod_ids
            /\ last' = [NoCall EXCEPT !.op = "insert_mod", !.ok = res.ok,
                                      !.id = res.id, !.path = path]
    /\ ncalls' = ncalls + 1
    /\ UNCHANGED <<foreign_keys, runVars, parser>>

\* A caller invokes insert_recipe with a mod id that insert_mod returned.
InsertRecipe ==
    /\ ncalls < MaxCalls
    /\ \E mod_id \in mod_ids, path \in {RecipeA, RecipeB}, in \in RecipeInputs :
        \E failAt \in 0..(2 + Len(in.ingredients)) :
            LET res == insert_recipe(DB, foreign_keys, mod_id, path, in.recipe_type,
                                     in.result_item, in.result_count, in.raw_json,
                                     in.ingredients, failAt, "caller")
            IN  /\ SetStore(res.db)
                /\ last' = [op |-> "insert_recipe", ok |-> res.ok, id |-> res.id,
                            mod_id |-> mod_id, path |-> path,
                            ingredients |-> in.ingredients]
    /\ ncalls' = ncalls + 1
    /\ UNCHANGED <<foreign_keys, mod_ids, runVars, parser>>

Next == ClearAll \/ InsertMod \/ InsertRecipe

Spec == Init /\ [][Next]_vars

\* ------------------------------------------ SpecRun: an extraction run

\* The store a run finds: empty, or what an earlier run left that stored the
\* recipe Doc3 of the archive m1/a.jar.
OldDB ==
    LET mod    == insert_mod(EmptyDB, FALSE, "a.jar", <<"m1", "a.jar">>, 0, "prior")
        parsed == parse_recipe(Doc3)
    IN  insert_recipe(mod.db, FALSE, mod.id, RecipeA, parsed.recipe_type,
                      parsed.result_item, parsed.result_count, Doc3,
                      parsed.ingredients, 0, "prior").db
PriorStores == {EmptyDB, OldDB}

\* The archive lists a run may be given.
PathLists == UNION {[1..n -> JarPaths] : n \in 0..MaxPaths}

\* What opening an archive can give: the entry names in directory order and
\* the text of each recipe file (Unreadable: read_to_string fails,
\* Malformed: serde_json rejects it).
Archives ==
    {[names |-> <<RecipeA, RecipeB>>,
      files |-> (RecipeA :> Malformed @@ RecipeB :> Doc1)],
     [names |-> <<RecipeA, RecipeB>>,
      files |-> (RecipeA :> Doc3 @@ RecipeB :> Doc0)],
     [names |-> <<EntryShort, EntryAssets, EntryTags, EntryNotJson, RecipeB>>,
      files |-> (RecipeA :> Doc1 @@ RecipeB :> Unreadable)],
     [names |-> <<RecipeA, RecipeA>>,
      files |-> (RecipeA :> Doc2 @@ RecipeB :> Doc2)]}

\* Path::file_name(): the last component.
FileName(path) == path[Len(path)]

\* The recipe-file filter on entry_name.split('/').
JsonFileNames == {"a.json", "b.json"}
IsRecipeFile(parts) ==
    /\ ~(Len(parts) < 4 \/ parts[1] /= "data")
    /\ ~(parts[3] /= "recipe" /\ parts[3] /= "recipes")
    /\ parts[Len(parts)] \in JsonFileNames

\* CanLock for a method that does not wait for the Mutex.
CanLockAlways(h) == TRUE

\* self.conn.lock(): the caller goes on when no thread holds the Mutex.
CanLock(h) == h = {}

Ok(id) == [ok |-> TRUE, error |-> "", id |-> id]
Err(message) == [ok |-> FALSE, error |-> message, id |-> 0]

\* Where another thread finds the run: outside a run, between two Database
\* calls of a run, inside insert_recipe, or inside another Database call.
InsideInsertRecipe == {"insert_recipe:insert", "insert_recipe:delete",
                       "insert_recipe:items"}
InsideCall == {"clear_all:batch", "insert_mod:execute"} \cup InsideInsertRecipe
Phase(pc) ==
    IF pc \in {"idle", "done", "failed"} THEN "outside"
    ELSE IF pc \in InsideInsertRecipe THEN "insert_recipe"
    ELSE IF pc \in InsideCall THEN "inside" ELSE "between"

InitRun ==
    /\ foreign_keys \in BOOLEAN
    /\ \E db \in PriorStores :
        /\ mods = db.mods
        /\ recipes = db.recipes
        /\ recipe_ingredients = db.ings
    /\ ncalls = 0
    /\ mod_ids = {}
    /\ last = NoCall
    /\ holders = {}
    /\ run = RunIdle
    /\ reader = ReaderIdle
    /\ parser = ParserIdle

RunStep(next) ==
    /\ run' = next
    /\ UNCHANGED <<foreign_keys, storeVars, apiVars, holders, reader>>

Acquire(next) ==
    /\ CanLock(holders)
    /\ holders' = holders \cup {"run"}
    /\ run' = next
    /\ UNCHANGED <<foreign_keys, storeVars, apiVars, reader>>

\* A statement of a Database method runs and the method goes on.
Execute(db, next) ==
    /\ SetStore(db)
    /\ run' = next
    /\ UNCHANGED <<foreign_keys, apiVars, holders, reader>>

\* The method returns (its last statement has changed the store to db) and
\* the MutexGuard is dropped.
Release(db, next) ==
    /\ SetStore(db)
    /\ holders' = holders \ {"run"}
    /\ run' = next
    /\ UNCHANGED <<foreign_keys, apiVars, reader>>

\* The command is invoked with a list of archive paths.
Invoke ==
    /\ run.pc = "idle"
    /\ \E ps \in PathLists :
        RunStep([RunIdle EXCEPT !.pc = "clear_all", !.paths = ps,
                                !.found = DB /= EmptyDB])

\* db.clear_all() takes the lock.
ClearAllLock ==
    /\ run.pc = "clear_all"
    /\ Acquire([run EXCEPT !.pc = "clear_all:batch", !.statement = 1,
                           !.calls = Append(@, "clear_all")])

\* One statement of the batch succeeds; after the third, clear_all returns Ok
\* and the loop over the paths starts.
ClearAllStatement ==
    /\ run.pc = "clear_all:batch"
    /\ LET db == ClearStatement(DB, foreign_keys, run.statement)
       IN  IF run.statement < 3
           THEN Execute(db, [run EXCEPT !.statement = @ + 1])
           ELSE Release(db, [run EXCEPT !.pc = "archive", !.statement = 0])

\* A statement of the batch fails: clear_all returns the error and the
\* command returns "Failed to clear database".
ClearAllFails ==
    /\ run.pc = "clear_all:batch"
    /\ Release(DB, [run EXCEPT !.pc = "failed", !.statement = 0,
                               !.result = Err("Failed to clear database")])

\* EmitProgress returning from the command when the event is not delivered.
EmitProgressStopsOnFailure ==
    /\ run.pc = "archive"
    /\ run.index < Len(run.paths)
    /\ \E sent \in {"ok", "err"} :
        RunStep([run EXCEPT !.mod_name = FileName(run.paths[run.index + 1]),
                            !.progress = Append(@,
                                [current |-> run.index + 1, total |-> Len(run.paths),
                                 current_mod |-> FileName(run.paths[run.index + 1])]),
                            !.emit = sent,
                            !.pc = IF sent = "ok" THEN "open" ELSE "failed"])

\* The loop takes the next path: mod_name is its file name and the progress
\* event (index + 1, total, mod_name) is emitted; app.emit delivers it or
\* returns an error, which `let _ =` drops.
EmitProgress ==
    /\ run.pc = "archive"
    /\ run.index < Len(run.paths)
    /\ \E sent \in {"ok", "err"} :
        RunStep([run EXCEPT !.mod_name = FileName(run.paths[run.index + 1]),
                            !.progress = Append(@,
                                [current |-> run.index + 1, total |-> Len(run.paths),
                                 current_mod |-> FileName(run.paths[run.index + 1])]),
                            !.emit = sent,
                            !.pc = "open"])

\* File::open and ZipArchive::new fail or give the archive.
OpenArchive ==
    /\ run.pc = "open"
    /\ \E res \in {Err("cannot open file"), Err("invalid Zip archive")}
                  \cup {Ok(0)}, a \in Archives :
        RunStep([run EXCEPT !.emit = "none",
                            !.result = res,
                            !.archive = IF res.ok THEN a ELSE RunIdle.archive,
                            !.pc = "opened"])

\* OpenFailed without its `continue`: the error is recorded and the code
\* falls through to insert_mod.
OpenFailedFallsThrough ==
    /\ run.pc = "opened"
    /\ ~run.result.ok
    /\ RunStep([run EXCEPT
           !.errors = Append(@, [path |-> run.paths[run.index + 1],
                                 message |-> run.result.error]),
           !.pc = "insert_mod"])

\* Err(e) => { errors.push(format!("{}: {}", jar_path, e)); continue; }
OpenFailed ==
    /\ run.pc = "opened"
    /\ ~run.result.ok
    /\ RunStep([run EXCEPT
           !.errors = Append(@, [path |-> run.paths[run.index + 1],
                                 message |-> run.result.error]),
           !.index = @ + 1, !.pc = "archive"])

\* Ok(a) => a: the archive is open and insert_mod is called.
OpenOk ==
    /\ run.pc = "opened"
    /\ run.result.ok
    /\ RunStep([run EXCEPT !.pc = "insert_mod"])

\* db.insert_mod(&mod_name, jar_path) takes the lock.
InsertModLock ==
    /\ run.pc = "insert_mod"
    /\ Acquire([run EXCEPT !.pc = "insert_mod:execute",
                           !.calls = Append(@, "insert_mod")])

\* The INSERT OR REPLACE succeeds and insert_mod returns last_insert_rowid().
InsertModExecute ==
    /\ run.pc = "insert_mod:execute"
    /\ LET res == StmtInsertMod(DB, foreign_keys, run.mod_name,
                                run.paths[run.index + 1], "run")
       IN  Release(res.db, [run EXCEPT !.pc = "insert_mod:returned",
                                       !.result = Ok(res.id)])

\* The INSERT OR REPLACE fails and insert_mod returns the error.
InsertModFails ==
    /\ run.pc = "insert_mod:execute"
    /\ Release(DB, [run EXCEPT !.pc = "insert_mod:returned",
                               !.result = Err("disk I/O error")])

\* Err(e) => { errors.push(format!("{}: Failed to insert mod: {}", ..)); continue; }
InsertModFailed ==
    /\ run.pc = "insert_mod:returned"
    /\ ~run.result.ok
    /\ RunStep([run EXCEPT
           !.errors = Append(@, [mod |-> run.mod_name,
                                 failed |-> "Failed to insert mod",
                                 message |-> run.result.error]),
           !.index = @ + 1, !.pc = "archive"])

\* Ok(id) => id; mods_processed += 1; entry_names is collected.
InsertModOk ==
    /\ run.pc = "insert_mod:returned"
    /\ run.result.ok
    /\ RunStep([run EXCEPT !.mod_id = run.result.id,
                           !.mods_processed = @ + 1,
                           !.entry_names = run.archive.names,
                           !.entry = 1, !.pc = "entry"])

\* The entry is not a recipe file: continue.
EntrySkipped ==
    /\ run.pc = "entry"
    /\ run.entry <= Len(run.entry_names)
    /\ ~IsRecipeFile(run.entry_names[run.entry])
    /\ RunStep([run EXCEPT !.entry = @ + 1])

\* by_name or read_to_string fails: continue.
EntryUnreadable ==
    /\ run.pc = "entry"
    /\ run.entry <= Len(run.entry_names)
    /\ IsRecipeFile(run.entry_names[run.entry])
    /\ run.archive.files[run.entry_names[run.entry]] = Unreadable
    /\ RunStep([run EXCEPT !.entry = @ + 1])

\* The entry's text is read and recipe_parser::parse_recipe is called on it.
EntryRead ==
    /\ run.pc = "entry"
    /\ run.entry <= Len(run.entry_names)
    /\ IsRecipeFile(run.entry_names[run.entry])
    /\ run.archive.files[run.entry_names[run.entry]] /= Unreadable
    /\ LET contents == run.archive.files[run.entry_names[run.entry]]
           parsed   == parse_recipe(contents)
       IN  RunStep([run EXCEPT !.contents = contents,
                               !.result = IF parsed.ok THEN Ok(0) ELSE Err(parsed.error),
                               !.pc = "parsed"])

\* ParseFailed with `break` for `continue`: the rest of the archive is dropped.
ParseFailedBreaks ==
    /\ run.pc = "parsed"
    /\ ~run.result.ok
    /\ RunStep([run EXCEPT
           !.errors = Append(@, [mod |-> run.mod_name,
                                 entry |-> run.entry_names[run.entry],
                                 message |-> run.result.error]),
           !.entry = Len(run.entry_names) + 1, !.pc = "entry"])

\* Err(e) => { errors.push(format!("{}:{}: {}", mod_name, entry_name, e)); continue; }
ParseFailed ==
    /\ run.pc = "parsed"
    /\ ~run.result.ok
    /\ RunStep([run EXCEPT
           !.errors = Append(@, [mod |-> run.mod_name,
                                 entry |-> run.entry_names[run.entry],
                                 message |-> run.result.error]),
           !.entry = @ + 1, !.pc = "entry"])

\* Ok(p) => p: insert_recipe is called.
ParseOk ==
    /\ run.pc = "parsed"
    /\ run.result.ok
    /\ RunStep([run EXCEPT !.pc = "insert_recipe"])

\* db.insert_recipe(mod_id, &entry_name, ..) takes the lock.
InsertRecipeLock ==
    /\ run.pc = "insert_recipe"
    /\ Acquire([run EXCEPT !.pc = "insert_recipe:insert",
                           !.calls = Append(@, "insert_recipe")])

\* The INSERT OR REPLACE INTO recipes succeeds; recipe_id = last_insert_rowid().
InsertRecipeRow ==
    /\ run.pc = "insert_recipe:insert"
    /\ LET parsed == parse_recipe(run.contents)
           res == StmtInsertRecipeRow(DB, foreign_keys, run.mod_id,
                      run.entry_names[run.entry], parsed.recipe_type,
                      parsed.result_item, parsed.result_count, run.contents, "run")
       IN  /\ res.ok
           /\ Execute(res.db, [run EXCEPT !.recipe_id = res.id,
                                          !.pc = "insert_recipe:delete"])

\* The DELETE of the ingredients of recipe_id succeeds.
InsertRecipeDelete ==
    /\ run.pc = "insert_recipe:delete"
    /\ Execute(StmtDeleteIngredients(DB, run.recipe_id),
               [run EXCEPT !.inserted = 0, !.pc = "insert_recipe:items"])

\* The INSERT of the next ingredient succeeds.
InsertRecipeItem ==
    /\ run.pc = "insert_recipe:items"
    /\ run.inserted < Len(parse_recipe(run.contents).ingredients)
    /\ Execute(StmtInsertIngredient(DB, run.recipe_id,
                   parse_recipe(run.contents).ingredients[run.inserted + 1], "run"),
               [run EXCEPT !.inserted = @ + 1])

\* Every ingredient is inserted: insert_recipe returns Ok(recipe_id).
InsertRecipeReturns ==
    /\ run.pc = "insert_recipe:items"
    /\ run.inserted = Len(parse_recipe(run.contents).ingredients)
    /\ Release(DB, [run EXCEPT !.result = Ok(run.recipe_id), !.inserted = 0,
                               !.pc = "insert_recipe:returned"])

\* The statement insert_recipe is about to run fails (an I/O error, or the
\* foreign key of mod_id): `?` returns the error, the earlier statements stay.
InsertRecipeFails ==
    /\ \/ run.pc \in {"insert_recipe:insert", "insert_recipe:delete"}
       \/ /\ run.pc = "insert_recipe:items"
          /\ run.inserted < Len(parse_recipe(run.contents).ingredients)
    /\ Release(DB, [run EXCEPT !.result = Err("disk I/O error"), !.inserted = 0,
                               !.pc = "insert_recipe:returned"])

\* Ok(_) => recipes_extracted += 1
StoreOk ==
    /\ run.pc = "insert_recipe:returned"
    /\ run.result.ok
    /\ RunStep([run EXCEPT !.recipes_extracted = @ + 1,
                           !.entry = @ + 1, !.pc = "entry"])

\* Err(e) => { errors.push(format!("{}:{}: {}", mod_name, entry_name, e)); }
StoreFailed ==
    /\ run.pc = "insert_recipe:returned"
    /\ ~run.result.ok
    /\ RunStep([run EXCEPT
           !.errors = Append(@, [mod |-> run.mod_name,
                                 entry |-> run.entry_names[run.entry],
                                 message |-> run.result.error]),
           !.entry = @ + 1, !.pc = "entry"])

\* The entries of the archive are exhausted: the next path.
ArchiveDone ==
    /\ run.pc = "entry"
    /\ run.entry > Len(run.entry_names)
    /\ RunStep([run EXCEPT !.index = @ + 1, !.pc = "archive"])

\* The paths are exhausted: Ok(ExtractionResult { .. }).
Return ==
    /\ run.pc = "archive"
    /\ run.index = Len(run.paths)
    /\ RunStep([run EXCEPT !.pc = "done"])

\* A read command (search_recipes_by_output, search_recipes_by_ingredient,
\* list_recipes, get_recipe_count) arrives.
ReaderArrive ==
    /\ reader.pc \in {"idle", "returned"}
    /\ reader' = [pc |-> "waiting", arrived |-> Phase(run.pc), seen |-> "none",
                  torn |-> FALSE]
    /\ UNCHANGED <<foreign_keys, storeVars, apiVars, holders, run>>

\* ReaderLock for a read method that does not wait for the Mutex.
ReaderLockWithoutMutex ==
    /\ reader.pc = "waiting"
    /\ holders' = holders \cup {"reader"}
    /\ reader' = [reader EXCEPT !.pc = "reading"]
    /\ UNCHANGED <<foreign_keys, storeVars, apiVars, run>>

\* Its Database method takes the lock.
ReaderLock ==
    /\ reader.pc = "waiting"
    /\ CanLock(holders)
    /\ holders' = holders \cup {"reader"}
    /\ reader' = [reader EXCEPT !.pc = "reading"]
    /\ UNCHANGED <<foreign_keys, storeVars, apiVars, run>>

\* It runs its queries, drops the lock and returns what it read.
ReaderRead ==
    /\ reader.pc = "reading"
    /\ holders' = holders \ {"reader"}
    /\ reader' = [reader EXCEPT !.pc = "returned", !.seen = Phase(run.pc),
                    !.torn = run.pc \in {"insert_recipe:delete", "insert_recipe:items"}]
    /\ UNCHANGED <<foreign_keys, storeVars, apiVars, run>>

\* The steps of a run after its invocation.
RunSteps ==
    \/ ClearAllLock \/ ClearAllStatement \/ ClearAllFails
    \/ EmitProgress \/ OpenArchive \/ OpenFailed \/ OpenOk
    \/ InsertModLock \/ InsertModExecute \/ InsertModFails
    \/ InsertModFailed \/ InsertModOk
    \/ EntrySkipped \/ EntryUnreadable \/ EntryRead \/ ParseFailed \/ ParseOk
    \/ InsertRecipeLock \/ InsertRecipeRow \/ InsertRecipeDelete
    \/ InsertRecipeItem \/ InsertRecipeReturns \/ InsertRecipeFails
    \/ StoreOk \/ StoreFailed \/ ArchiveDone \/ Return

\* SpecRun: one extraction run, alone.
NextRun == Invoke \/ RunSteps

SpecRun == InitRun /\ [][NextRun]_vars

\* SpecRead: read commands arriving beside a run that has been invoked.
InitRead ==
    /\ foreign_keys \in BOOLEAN
    /\ \E db \in PriorStores :
        /\ mods = db.mods
        /\ recipes = db.recipes
        /\ recipe_ingredients = db.ings
        /\ \E ps \in UNION {[1..n -> JarPaths] : n \in 0..MaxReadPaths} :
            run = [RunIdle EXCEPT !.pc = "clear_all", !.paths = ps,
                                  !.found = db /= EmptyDB]
    /\ ncalls = 0
    /\ mod_ids = {}
    /\ last = NoCall
    /\ holders = {}
    /\ reader = ReaderIdle
    /\ parser = ParserIdle

NextRead == RunSteps \/ ReaderArrive \/ ReaderLock \/ ReaderRead

SpecRead == InitRead /\ [][NextRead]_vars

\* ------------------------------------- SpecParse: calls of parse_recipe

\* The values the members of a document take: a string, objects with item,
\* tag, id and count members (usable or not), a nested array with a repeated
\* element, a tag reference and a number, and a map as `key` holds one.
ItemA == <<"a">>
ItemB == <<"b">>
PoolArray ==
    JArray(<<JString(ItemB), JObject(<<Member("item", JString(ItemA))>>), JString(ItemB),
             JArray(<<JString(ItemA), JObject(<<Member("tag", JString(ItemA))>>),
                      JInt(0, 5)>>)>>)
PoolValues ==
    {JString(ItemA),
     JObject(<<Member("item", JString(ItemB)), Member("count", JInt(0, 2))>>),
     JObject(<<Member("item", JInt(0, 5)), Member("tag", JString(ItemB)),
               Member("id", JString(ItemB))>>),
     JObject(<<Member("id", JString(ItemA)), Member("count", JInt(1, 3))>>),
     PoolArray,
     JObject(<<Member("x", JString(ItemB)),
               Member("y", JObject(<<Member("tag", JString(ItemA))>>)),
               Member("z", JArray(<<JString(ItemA)>>))>>)}

\* The member names parse_recipe reads, beside "type".
FieldNames == <<"result", "ingredients", "ingredient", "key", "template", "base",
                "addition", "input", "inputs">>

\* The type names of the documents: every name of the dispatch in both
\* forms, a name containing "special" and a name of a modded recipe type.
TypeNames ==
    ShapedTypes \cup ShapelessTypes \cup CookingTypes \cup StonecuttingTypes
    \cup SmithingTypes \cup LegacySmithingTypes
    \cup {<<"minecraft:", "crafting_", "special", "_armordye">>, <<"create:", "mixing">>}

\* The "type" member of a document: missing, not a string, or a name.
TypeMembers ==
    {<< >>, <<Member("type", JInt(0, 5))>>}
    \cup {<<Member("type", JString(t))>> : t \in TypeNames}

\* The other members: at most MaxFields of the names, each with a value.
Bodies ==
    UNION {[N -> PoolValues] :
              N \in {M \in SUBSET Range(FieldNames) : Cardinality(M) <= MaxFields}}
BodyMembers(f) ==
    LET names == SelectSeq(FieldNames, LAMBDA n : n \in DOMAIN f)
    IN  [k \in 1..Len(names) |-> Member(names[k], f[names[k]])]

\* Texts that spell no object: a string, an array, and a text that is not
\* JSON.
OtherTexts == {Malformed, JString(ItemA), PoolArray}

InitParse ==
    /\ foreign_keys = FALSE
    /\ mods = {}
    /\ recipes = {}
    /\ recipe_ingredients = {}
    /\ ncalls = 0
    /\ mod_ids = {}
    /\ last = NoCall
    /\ holders = {}
    /\ run = RunIdle
    /\ reader = ReaderIdle
    /\ \/ \E t \in TypeMembers, f \in Bodies :
            parser = [ParserIdle EXCEPT !.pc = "called",
                                        !.json_str = JObject(t \o BodyMembers(f))]
       \/ \E d \in OtherTexts :
            parser = [ParserIdle EXCEPT !.pc = "called", !.json_str = d]

\* parse_recipe is called on a document with a type and members, or on
\* another text, and returns.
ParseRecipe ==
    /\ parser.pc = "called"
    /\ parser' = [parser EXCEPT !.pc = "returned",
                                !.parsed = parse_recipe(parser.json_str)]
    /\ UNCHANGED <<foreign_keys, storeVars, ncalls, mod_ids, last, runVars>>

NextParse == ParseRecipe

SpecParse == InitParse /\ [][NextParse]_vars

\* --------------------------------------------------- properties of a run

IsArchiveError(e) == DOMAIN e = {"path", "message"}
IsEntryError(e) == DOMAIN e = {"mod", "entry", "message"}

\* C5: a run calls clear_all once, as its first Database call, and when it
\* returns its result every mods row has a path of its archive list and every
\* row of the three tables was written by the run.
C5_RunStartsFresh ==
    /\ run.calls /= << >> =>
        /\ run.calls[1] = "clear_all"
        /\ \A k \in 2..Len(run.calls) : run.calls[k] /= "clear_all"
    /\ run.pc \notin {"idle", "clear_all"} => run.calls /= << >>
    /\ run.pc = "done" =>
        /\ \A m \in mods : m.path \in Range(run.paths) /\ m.by = "run"
        /\ \A r \in recipes : r.by = "run"
        /\ \A x \in recipe_ingredients : x.by = "run"

\* A run that found rows of an earlier run has returned and has stored
\* mods, recipes and ingredients of its own.
C5_Witness ==
    /\ run.pc = "done"
    /\ run.found
    /\ mods /= {} /\ recipes /= {} /\ recipe_ingredients /= {}

\* C6: when parse_recipe or insert_recipe fails for an entry, the run appends
\* the one error (mod, entry, message), leaves recipes_extracted as it is and
\* goes on with the next entry of the same archive; a finished run has been
\* through every path of its list.
C6_EntryFailureIsRecorded ==
    /\ [][(run.pc \in {"parsed", "insert_recipe:returned"} /\ ~run.result.ok
           /\ run' /= run) =>
            /\ run'.errors = Append(run.errors,
                   [mod |-> run.mod_name, entry |-> run.entry_names[run.entry],
                    message |-> run.result.error])
            /\ run'.recipes_extracted = run.recipes_extracted
            /\ run'.mods_processed = run.mods_processed
            /\ run'.pc = "entry"
            /\ run'.entry = run.entry + 1
            /\ run'.entry_names = run.entry_names
            /\ run'.index = run.index
            /\ run'.paths = run.paths]_vars
    /\ [](run.pc = "entry" => run.entry <= Len(run.entry_names) + 1)
    /\ [](run.pc = "done" => run.index = Len(run.paths))

\* The first entry of an archive failed to parse, a later entry of it was
\* stored, and the run went on to its second archive.
C6_Witness ==
    /\ run.errors /= << >>
    /\ IsEntryError(run.errors[1])
    /\ run.errors[1].entry = RecipeA
    /\ run.recipes_extracted >= 1
    /\ \E r \in recipes : r.path = RecipeB
    /\ run.index = 1
    /\ run.pc = "insert_mod:returned"

\* C7: when an archive cannot be opened or read, the run appends the one
\* error naming its path, makes no Database call for it, leaves
\* mods_processed and the store as they are and goes on with the next path.
C7_OpenFailureSkipsArchive ==
    [][(run.pc = "opened" /\ ~run.result.ok /\ run' /= run) =>
        /\ run'.errors = Append(run.errors,
               [path |-> run.paths[run.index + 1], message |-> run.result.error])
        /\ run'.calls = run.calls
        /\ run'.mods_processed = run.mods_processed
        /\ run'.recipes_extracted = run.recipes_extracted
        /\ run'.pc = "archive"
        /\ run'.index = run.index + 1
        /\ run'.paths = run.paths
        /\ UNCHANGED storeVars]_vars

\* The first archive could not be opened, the second one was registered.
C7_Witness ==
    /\ Len(run.errors) = 1
    /\ IsArchiveError(run.errors[1])
    /\ run.errors[1].path = run.paths[1]
    /\ run.index = 1
    /\ run.mods_processed = 1
    /\ run.calls = <<"clear_all", "insert_mod">>
    /\ Cardinality(mods) = 1

\* C8: at most one thread is inside a Database method, and a read never
\* runs while insert_recipe has replaced the recipes row and not yet
\* rewritten its ingredient rows.
C8_StoreCallsExclusive ==
    /\ Cardinality(holders) <= 1
    /\ run.pc \in InsideCall <=> "run" \in holders
    /\ reader.pc = "reading" <=> "reader" \in holders
    /\ reader.pc = "returned" => ~reader.torn

\* A read arrived while insert_recipe was running and has returned.
C8_Witness ==
    /\ reader.pc = "returned"
    /\ reader.arrived = "insert_recipe"
    /\ recipes /= {}

\* C9 as stated: a read that arrives during a run reads the store only after
\* the run has finished.
C9_ReadStalledForWholeRun ==
    (reader.pc = "returned" /\ reader.arrived /= "outside") => reader.seen = "outside"

\* C9 as amended: a read that arrives during a run waits for the Database
\* call in progress only; it reads the store between two Database calls of
\* the run or after the run, never inside a call.
C9_ReadWaitsForOneCall ==
    /\ (reader.pc = "reading" /\ reader.arrived /= "outside") =>
            run.pc \notin InsideCall
    /\ (reader.pc = "returned" /\ reader.arrived /= "outside") =>
            reader.seen \in {"between", "outside"}

\* A read that arrived during a run has returned while the run, past its
\* clear_all and with a recipe stored, still has Database calls to make.
C9_Witness ==
    /\ reader.pc = "returned"
    /\ reader.arrived /= "outside"
    /\ reader.seen = "between"
    /\ run.pc = "insert_recipe"
    /\ recipes /= {}

\* The entries of the archive in hand that pass the recipe-file filter, among
\* its first n entries.
Candidates(n) == {k \in 1..n : IsRecipeFile(run.entry_names[k])}

\* The errors recorded for entries.
EntryErrors(errors) == {k \in DOMAIN errors : IsEntryError(errors[k])}

\* C22: every entry that passes the recipe-file filter ends as a stored
\* recipe counted in recipes_extracted or as one error appended to errors,
\* never both and never neither; for the first registered archive the
\* candidates passed equal the recipes counted plus the errors recorded.
C22_EveryCandidateAccounted ==
    /\ [][(/\ run.pc \in {"entry", "parsed", "insert_recipe:returned"}
           /\ run.entry <= Len(run.entry_names)
           /\ IsRecipeFile(run.entry_names[run.entry])
           /\ run'.entry /= run.entry) =>
            \/ /\ run'.recipes_extracted = run.recipes_extracted + 1
               /\ run'.errors = run.errors
            \/ /\ run'.recipes_extracted = run.recipes_extracted
               /\ Len(run'.errors) = Len(run.errors) + 1
               /\ IsEntryError(run'.errors[Len(run'.errors)])]_vars
    /\ []((run.pc = "entry" /\ run.mods_processed = 1) =>
            Cardinality(Candidates(run.entry - 1))
                = run.recipes_extracted + Cardinality(EntryErrors(run.errors)))

\* C23: when a run returns, get_recipe_count() equals recipes_extracted and
\* the number of mods rows equals mods_processed, whatever the archive list.
C23_CountersAgreeWithStore ==
    run.pc = "done" =>
        /\ get_recipe_count(DB) = run.recipes_extracted
        /\ Cardinality(mods) = run.mods_processed

\* --------------------------------------------------- properties of the API

\* The items of the ingredient rows stored for a recipe id, in rowid order.
RECURSIVE RowsInIdOrder(_)
RowsInIdOrder(S) ==
    IF S = {} THEN << >>
    ELSE LET first == CHOOSE a \in S : \A b \in S : a.id <= b.id
         IN  <<first.item>> \o RowsInIdOrder(S \ {first})

StoredItems(db, recipe_id) ==
    RowsInIdOrder({x \in db.ings : x.recipe_id = recipe_id})

\* The step is a call of insert_recipe for the (mod_id, path) in last'.
InsertRecipeCalled == ncalls' = ncalls + 1 /\ last'.op = "insert_recipe"

\* The recipes rows holding a (mod_id, path).
KeyRows(db, mod_id, path) ==
    {r \in db.recipes : r.mod_id = mod_id /\ r.path = path}

\* C1: when insert_recipe succeeds for a (mod_id, path), the ingredient rows
\* stored for that recipe are exactly the items it was given, and no
\* ingredient row that belonged to the recipe before the call is left in
\* recipe_ingredients.
C1_SecondSetReplacesFirst ==
    [][(InsertRecipeCalled /\ last'.ok) =>
        LET old   == KeyRows(DB, last'.mod_id, last'.path)
            first == {x \in recipe_ingredients : x.recipe_id \in Ids(old)}
        IN  /\ StoredItems(DB', last'.id) = last'.ingredients
            /\ first \cap recipe_ingredients' = {}]_vars

\* C2: every recipes row names a row of mods and every recipe_ingredients
\* row names a row of recipes.
C2_ReferencesExist ==
    /\ \A r \in recipes : r.mod_id \in Ids(mods)
    /\ \A x \in recipe_ingredients : x.recipe_id \in Ids(recipes)

\* C3: get_recipe_count() is the number of recipes list_recipes(0, limit)
\* returns for every limit at least the size of the recipes table.
C3_CountEqualsFullList ==
    \A limit \in Cardinality(recipes)..(Cardinality(recipes) + 1) :
        get_recipe_count(DB) = Len(list_recipes(DB, 0, limit))

\* C4: when insert_recipe returns an error, the store holds either the
\* recipe as before the call with its previous ingredient rows, or the new
\* recipes row with every ingredient it was given.
C4_InsertRecipeIsOneUnit ==
    [][(InsertRecipeCalled /\ ~last'.ok) =>
        LET old == KeyRows(DB, last'.mod_id, last'.path)
            new == KeyRows(DB', last'.mod_id, last'.path)
        IN  \/ /\ new = old
               /\ \A r \in old : StoredItems(DB', r.id) = StoredItems(DB, r.id)
            \/ /\ new /= {}
               /\ new \cap old = {}
               /\ \A r \in new : StoredItems(DB', r.id) = last'.ingredients]_vars

\* list_recipes(0, n), list_recipes(n, n), ... concatenated, up to page k.
RECURSIVE Pages(_, _, _)
Pages(db, n, k) ==
    IF k < 0 THEN << >>
    ELSE Pages(db, n, k - 1) \o list_recipes(db, k * n, n)

\* C10: for every page size n > 0 the pages list_recipes(0, n),
\* list_recipes(n, n), ... hold every stored recipe exactly once, in ascending
\* (mod_name, path) order.
C10_PagesPartitionRecipes ==
    \A n \in 1..MaxPage :
        LET all == Pages(DB, n, Cardinality(recipes))
        IN  /\ \A r \in recipes :
                   Cardinality({k \in 1..Len(all) : all[k].id = r.id}) = 1
            /\ \A k \in 1..(Len(all) - 1) :
                   \/ Rank(all[k].mod_name) < Rank(all[k + 1].mod_name)
                   \/ /\ all[k].mod_name = all[k + 1].mod_name
                      /\ EntryRank(all[k].path) <= EntryRank(all[k + 1].path)

\* C13: the mods table never holds two rows with the same path; a successful
\* insert_mod(name, path) leaves exactly one row with that path, whose id is
\* the id it returned, and leaves the rows of the other paths as they were.
C13_OneRowPerPath ==
    /\ [](\A a, b \in mods : a.path = b.path => a = b)
    /\ [][(ncalls' = ncalls + 1 /\ last'.op = "insert_mod" /\ last'.ok) =>
            LET held == {m \in mods' : m.path = last'.path}
            IN  /\ Cardinality(held) = 1
                /\ \A m \in held : m.id = last'.id
                /\ mods' \ held = {m \in mods : m.path /= last'.path}]_vars

\* insert_mod was called for a path that was already registered: the store
\* holds one mods row, and it has the second id.
C13_Witness ==
    /\ last.op = "insert_mod" /\ last.ok
    /\ last.id = 2
    /\ Cardinality(mods) = 1
    /\ \A m \in mods : m.id = 2 /\ m.path = last.path

\* C14: the k-th progress event of a run carries current = k, total = the
\* length of the path list and the file name of the k-th path; the event of
\* a path has been emitted when its archive is opened, whether the open
\* succeeds or fails; a run that returns its result has emitted one event
\* per path; and an event that is not delivered leaves the store, the
\* counters and the errors as they are and the run goes on to open the
\* archive.
C14_OneProgressEventPerPath ==
    /\ [](\A k \in 1..Len(run.progress) :
            /\ k <= Len(run.paths)
            /\ run.progress[k] = [current |-> k, total |-> Len(run.paths),
                                  current_mod |-> FileName(run.paths[k])])
    /\ [](run.pc \in {"archive", "done"} => Len(run.progress) = run.index)
    /\ [](run.pc \in {"open", "opened"} => Len(run.progress) = run.index + 1)
    /\ [](run.pc = "done" => Len(run.progress) = Len(run.paths))
    /\ [][(Len(run'.progress) /= Len(run.progress)) =>
            /\ run.pc = "archive"
            /\ run'.pc = "open"
            /\ run'.errors = run.errors
            /\ run'.mods_processed = run.mods_processed
            /\ run'.recipes_extracted = run.recipes_extracted
            /\ UNCHANGED storeVars]_vars
    /\ [][(run.pc = "open" /\ run.emit = "err" /\ run' /= run) =>
            /\ run'.pc = "opened"
            /\ run'.errors = run.errors
            /\ run'.mods_processed = run.mods_processed
            /\ run'.recipes_extracted = run.recipes_extracted
            /\ UNCHANGED storeVars]_vars

\* The first archive of two failed to open, and the event of the second
\* path has been emitted and was not delivered.
C14_Witness ==
    /\ run.pc = "open"
    /\ run.emit = "err"
    /\ Len(run.paths) = 2
    /\ Len(run.progress) = 2
    /\ run.progress[2].current = 2
    /\ run.errors /= << >>
    /\ IsArchiveError(run.errors[1])

\* ------------------------------------------------ properties of the parser

\* parse_recipe has returned a recipe for the document.
Parsed == parser.pc = "returned" /\ parser.parsed.ok

\* The type of a document as the claims name it: the text of its "type"
\* member, "unknown" when that is missing or not a string; its bare form is
\* the name without the "minecraft:" namespace.
TypeOf(value) ==
    IF as_str(get(value, "type")) = None THEN <<"unknown">>
    ELSE as_str(get(value, "type"))[1]
BareOf(type) == IF type[1] = "minecraft:" THEN Tail(type) ELSE type
OtherForm(type) == IF type[1] = "minecraft:" THEN Tail(type) ELSE <<"minecraft:">> \o type
RecognisedBare ==
    {<<"crafting_shaped">>, <<"crafting_shapeless">>, <<"smelting">>, <<"blasting">>,
     <<"smoking">>, <<"campfire_cooking">>, <<"stonecutting">>,
     <<"smithing_transform">>, <<"smithing_trim">>, <<"smithing">>}

\* The document with its "type" member (the first member) naming t.
WithType(value, t) ==
    JObject(<<Member("type", JString(t))>> \o Tail(value.members))

\* The texts a value resolves to, and those of a member if it is present.
Resolved(value) == Range(extract_ingredients_from_value(value))
ResolvedField(value, name) ==
    IF get(value, name) = None THEN {} ELSE Resolved(get(value, name)[1])
ResolvedKey(value) ==
    UNION {Resolved(KeyValues(value)[k]) : k \in 1..Len(KeyValues(value))}

\* The document with the entries of every array and the members of every
\* object in reverse order.
RECURSIVE Reordered(_)
Reordered(value) ==
    IF value.kind = "array"
    THEN JArray([k \in 1..Len(value.items) |->
                    Reordered(value.items[Len(value.items) + 1 - k])])
    ELSE IF value.kind = "object"
    THEN JObject([k \in 1..Len(value.members) |->
                    LET m == value.members[Len(value.members) + 1 - k]
                    IN  Member(m.name, Reordered(m.value))])
    ELSE value

\* The document with the entries of every array written twice.
RECURSIVE Repeated(_)
Repeated(value) ==
    IF value.kind = "array"
    THEN LET items == [k \in 1..Len(value.items) |-> Repeated(value.items[k])]
         IN  JArray(items \o items)
    ELSE IF value.kind = "object"
    THEN JObject([k \in 1..Len(value.members) |->
                    Member(value.members[k].name, Repeated(value.members[k].value))])
    ELSE value

\* C15: the ingredient list parse_recipe returns is strictly ascending, and
\* it is the list returned for the document with its entries reordered and
\* for the document with its entries repeated.
C15_IngredientsSortedAndStable ==
    Parsed =>
        LET ingredients == parser.parsed.ingredients
        IN  /\ \A k \in 1..(Len(ingredients) - 1) :
                   StrLess(ingredients[k], ingredients[k + 1])
            /\ parse_recipe(Reordered(parser.json_str)).ingredients = ingredients
            /\ parse_recipe(Repeated(parser.json_str)).ingredients = ingredients

\* A document whose ingredient entries are out of order and repeated was
\* parsed to three ingredients.
C15_Witness ==
    /\ Parsed
    /\ get(parser.json_str, "ingredients") = Some(PoolArray)
    /\ get(parser.json_str, "type") = None
    /\ parser.parsed.ingredients = <<(<<"#">> \o ItemA), ItemA, ItemB>>

\* C16: for a document whose type contains "special", parse_recipe returns
\* no ingredients, no result_item and no result_count.
C16_SpecialHasNoResult ==
    (Parsed /\ Contains(TypeOf(parser.json_str), <<"special">>)) =>
        /\ parser.parsed.ingredients = << >>
        /\ parser.parsed.result_item = None
        /\ parser.parsed.result_count = None

\* The ingredient set C17 assigns to a recognised type.
AssignedFields(value, bare) ==
    IF bare = <<"crafting_shaped">> THEN ResolvedKey(value)
    ELSE IF bare = <<"crafting_shapeless">>
    THEN LET list == as_array(get(value, "ingredients"))
         IN  IF list = None THEN {}
             ELSE UNION {Resolved(list[1][k]) : k \in 1..Len(list[1])}
    ELSE IF bare \in {<<"smithing_transform">>, <<"smithing_trim">>}
    THEN ResolvedField(value, "template") \cup ResolvedField(value, "base")
         \cup ResolvedField(value, "addition")
    ELSE IF bare = <<"smithing">>
    THEN ResolvedField(value, "base") \cup ResolvedField(value, "addition")
    ELSE ResolvedField(value, "ingredient")

\* C17: for a recognised type, in either form, the ingredients returned are
\* those resolved from the fields assigned to the type and from no other
\* field, and the other form of the type gives the same recipe.
C17_RecognisedTypeFields ==
    (Parsed /\ BareOf(TypeOf(parser.json_str)) \in RecognisedBare) =>
        LET type == TypeOf(parser.json_str)
        IN  /\ Range(parser.parsed.ingredients)
                   = AssignedFields(parser.json_str, BareOf(type))
            /\ parse_recipe(WithType(parser.json_str, OtherForm(type)))
                   = [parser.parsed EXCEPT !.recipe_type = OtherForm(type)]

\* A namespaced shaped recipe with a key and an ingredients member was
\* parsed: the ingredients are those of the key, not those of ingredients.
C17_Witness ==
    /\ Parsed
    /\ TypeOf(parser.json_str) = <<"minecraft:", "crafting_shaped">>
    /\ get(parser.json_str, "ingredients") = Some(JString(ItemA))
    /\ KeyValues(parser.json_str) /= << >>
    /\ parser.parsed.ingredients = <<ItemB>>

\* One scan of the fallback: the first member if the document has it, else
\* the second; an array gives what its entries resolve to, another value
\* what it resolves to.
Scan(value, first, second) ==
    LET x == IF get(value, first) /= None THEN get(value, first) ELSE get(value, second)
    IN  IF x = None THEN {}
        ELSE IF x[1].kind = "array"
        THEN UNION {Resolved(x[1].items[k]) : k \in 1..Len(x[1].items)}
        ELSE Resolved(x[1])

\* C18: for a type that is neither recognised nor "special" the ingredients
\* returned are the union of the scan of ingredients, then ingredient, of
\* the values of key, and of the scan of input, then inputs.
C18_FallbackScans ==
    (/\ Parsed
     /\ BareOf(TypeOf(parser.json_str)) \notin RecognisedBare
     /\ ~Contains(TypeOf(parser.json_str), <<"special">>)) =>
        Range(parser.parsed.ingredients)
            = Scan(parser.json_str, "ingredients", "ingredient")
              \cup ResolvedKey(parser.json_str)
              \cup Scan(parser.json_str, "input", "inputs")

\* A document without a type, with a single string as ingredient and a key
\* map, was parsed to the ingredients of both.
C18_Witness ==
    /\ Parsed
    /\ get(parser.json_str, "type") = None
    /\ get(parser.json_str, "ingredient") = Some(JString(ItemA))
    /\ KeyValues(parser.json_str) /= << >>
    /\ parser.parsed.ingredients = <<(<<"#">> \o ItemA), ItemA, ItemB>>

\* C19: a string result s gives (s, 1); an object gives its item member, or
\* its id member when it has no usable item, and its integer count member
\* unchanged, or 1 when it has no count; any other result gives (none, none).
C19_ResultResolution ==
    (Parsed /\ get(parser.json_str, "result") /= None) =>
        LET result == get(parser.json_str, "result")[1]
            item   == as_str(get(result, "item"))
            id     == as_str(get(result, "id"))
            count  == get(result, "count")
        IN  /\ result.kind = "string" =>
                /\ parser.parsed.result_item = Some(result.str)
                /\ parser.parsed.result_count = Some(1)
            /\ result.kind = "object" =>
                /\ parser.parsed.result_item = (IF item /= None THEN item ELSE id)
                /\ count = None => parser.parsed.result_count = Some(1)
                /\ as_i64(count) /= None =>
                    /\ count[1].hi = 0
                    /\ parser.parsed.result_count = Some(count[1].lo)
            /\ result.kind \notin {"string", "object"} =>
                /\ parser.parsed.result_item = None
                /\ parser.parsed.result_count = None

\* The values a value holds, itself included, at any depth.
RECURSIVE SubValues(_)
SubValues(value) ==
    {value} \cup
    (IF value.kind = "array"
     THEN UNION {SubValues(value.items[k]) : k \in 1..Len(value.items)}
     ELSE IF value.kind = "object"
     THEN UNION {SubValues(value.members[k].value) : k \in 1..Len(value.members)}
     ELSE {})

\* The sequences of ss one after the other.
RECURSIVE Flatten(_)
Flatten(ss) == IF ss = << >> THEN << >> ELSE ss[1] \o Flatten(Tail(ss))

\* C20: a string resolves to itself; an object to its item string, else to
\* "#" and its tag string, else to nothing; an array to what its entries
\* resolve to, in order; any other value to nothing.  A tag reference and the
\* item of the same name are both kept in the ingredients of a recipe.
C20_IngredientResolution ==
    Parsed =>
        /\ \A v \in SubValues(parser.json_str) :
            LET pushed == extract_ingredients_from_value(v)
            IN  /\ v.kind = "string" => pushed = <<v.str>>
                /\ v.kind = "object" =>
                     pushed = (IF as_str(get(v, "item")) /= None
                               THEN <<as_str(get(v, "item"))[1]>>
                               ELSE IF as_str(get(v, "tag")) /= None
                               THEN <<(<<"#">> \o as_str(get(v, "tag"))[1])>>
                               ELSE << >>)
                /\ v.kind = "array" =>
                     pushed = Flatten([k \in 1..Len(v.items) |->
                                 extract_ingredients_from_value(v.items[k])])
                /\ v.kind \notin {"string", "object", "array"} => pushed = << >>
        /\ LET pushed == Range(MatchIngredients(parser.json_str,
                                                parser.parsed.recipe_type))
           IN  Range(parser.parsed.ingredients) = pushed

\* A smelting recipe whose ingredient is the nested array was parsed: the
\* item "a" and the tag reference "#a" of the inner array are both kept.
C20_Witness ==
    /\ Parsed
    /\ TypeOf(parser.json_str) = <<"smelting">>
    /\ get(parser.json_str, "ingredient") = Some(PoolArray)
    /\ ItemA \in Range(parser.parsed.ingredients)
    /\ (<<"#">> \o ItemA) \in Range(parser.parsed.ingredients)
    /\ ItemB \in Range(parser.parsed.ingredients)

\* C21: whenever parse_recipe succeeds, result_item and result_count are
\* both present or both absent.
C21_ItemAndCountTogether ==
    Parsed => ((parser.parsed.result_item = None) <=> (parser.parsed.result_count = None))

\* ------------------------------------------------ properties of the searches

\* The substrings searched for: parts of the stored identifiers, in either
\* case, the characters "_" and "%", and the empty string.
IngredientTerms == {<< >>, <<"i">>, <<"I">>, <<"1">>, <<"i", "2">>, <<"_">>, <<"%">>}
OutputTerms == {<< >>, <<"a">>, <<"A">>, <<"b">>, <<"a", "b">>, <<"a", "_">>,
                <<"_">>, <<"%">>}

\* text contains s when letters are compared without regard to case.
ContainsFolded(text, s) ==
    Contains([k \in 1..Len(text) |-> FoldCase(text[k])],
             [k \in 1..Len(s) |-> FoldCase(s[k])])

\* C11: search_by_ingredient(s) returns every stored recipe that has an
\* ingredient containing s exactly once, with all the ingredients stored
\* for it.
C11_IngredientSearchComplete ==
    \A s \in IngredientTerms :
        LET found == search_by_ingredient(DB, s)
        IN  \A r \in recipes :
                (\E x \in recipe_ingredients : x.recipe_id = r.id /\ Contains(x.item, s))
                => /\ Cardinality({k \in 1..Len(found) : found[k].id = r.id}) = 1
                   /\ \A k \in 1..Len(found) :
                        found[k].id = r.id =>
                            Range(found[k].ingredients)
                                = {x.item : x \in {y \in recipe_ingredients :
                                                       y.recipe_id = r.id}}

\* C12: search_by_output(s) returns exactly the stored recipes whose
\* result_item contains s, letters compared without regard to case, each
\* once, in ascending (result_item, mod_name) order.
C12_OutputSearchExact ==
    \A s \in OutputTerms :
        LET found == search_by_output(DB, s)
        IN  /\ \A r \in recipes :
                   Cardinality({k \in 1..Len(found) : found[k].id = r.id})
                       = (IF r.result_item /= None /\ ContainsFolded(r.result_item[1], s)
                          THEN 1 ELSE 0)
            /\ \A k \in 1..(Len(found) - 1) :
                   \/ StrLess(found[k].result_item[1], found[k + 1].result_item[1])
                   \/ /\ found[k].result_item = found[k + 1].result_item
                      /\ Rank(found[k].mod_name) <= Rank(found[k + 1].mod_name)

====
